---------------------------- MODULE Spec2Model ----------------------------
(***************************************************************************)
(* object_store::azure -- the MicrosoftAzure facade (src/object_store/src/ *)
(* azure/mod.rs) over the block-blob client and the streaming multipart    *)
(* writer (WriteMultiPart).                                                *)
(*                                                                         *)
(* The facade is translated from mod.rs.  The two collaborators it calls   *)
(* and that are not part of mod.rs -- the backend client (put_block,       *)
(* put_block_list, copy_request, signer) and the streaming engine          *)
(* WriteMultiPart -- are modelled from the written specification.          *)
(*                                                                         *)
(* Option<T> is a sequence of length <= 1: <<>> is None, <<x>> is Some(x). *)
(* A byte buffer is a sequence of numbers.                                 *)
(***************************************************************************)
EXTENDS Integers, Sequences, FiniteSets, TLC

(***************************************************************************)
(* Bounds of the model.                                                    *)
(***************************************************************************)
\* The minimum part size of the writer, in bytes (scaled down).
MinPartSize == 2
\* The caller of the long run writes at most MaxParts full parts.
MaxParts == 9
\* The caller of the short runs writes at most MaxDataLen bytes, each 0 or 1,
\* in calls of at most MaxChunk bytes.
MaxDataLen == 4
MaxChunk == 3
\* The backend fails at most MaxFailures part uploads of a run.
MaxFailures == 2
\* A batch to sign holds at most MaxSignPaths paths.
MaxSignPaths == 3
\* A caller of the multipart store uploads the parts of the indices
\* 0..MaxPartIdx, in any order.
MaxPartIdx == 1

\* The length of the part lists tried on complete_multipart.
MaxListLen == 2

\* mod.rs:105 -- WriteMultiPart::new(inner, 8)
MaxConcurrency == 8

None == << >>
Some(x) == << x >>

\* The path the streaming writer uploads to.
Loc == "a"
Paths == {"a", "b"}
\* The callers of the multipart store.
Callers == {1, 2}

VARIABLES
    \* ---- the caller of the streaming writer
    input,            \* the bytes the caller is going to write
    sizes,            \* the sizes of the write calls the caller makes
    written,          \* how many bytes of input have been written
    ret,              \* the last result returned to the caller: [op, res]
    \* ---- WriteMultiPart
    inner,            \* the AzureMultiPartUpload it uploads through
    max_concurrency,
    min_part_size,
    current_buffer,
    current_part_idx,
    tasks,            \* the part uploads in flight: {[idx, buf]}
    completed_parts,  \* Vec<Option<PartId>>, slot i+1 for index i
    wstate,           \* open, suspended, closeSuspended, draining, completing, closed
    failure,          \* Option: the first error the writer observed
    closeResult,      \* "none", "ok", "err"
    \* ---- what the PutPart stub saw
    uploadLog,        \* the put_part calls, in call order: [idx, buf]
    completeCalls,    \* the lists passed to complete, in call order
    failedParts,      \* the indices whose upload returned an error
    reverseOrder,     \* every upload so far returned before those of lower index
    \* ---- the backend
    blocks,           \* staged blocks: [path -> [block id -> Option<bytes>]]
    objects,          \* committed blobs: [path -> Option<bytes>]
    \* ---- the caller of the Signer
    sgArgs,           \* Option: the arguments of the last signing call
    sgRet,            \* Option: what the last signing call returned
    \* ---- the callers of the ObjectStore and the MultiPartStore
    pendingCopy,      \* Option: the copy request in flight
    sret,             \* the last result returned to a caller of the store
    created,          \* [caller -> Option<[path, id]>]: its multipart session
    held,             \* [caller -> the PartIds it received, in call order]
    aborted,          \* Option: the path of the last abort and the block ids
                      \* that were staged under it then
    completed         \* the callers whose session has been completed, in
                      \* the order of their completions

callerVars == << input, sizes, written, ret >>
configVars == << inner, max_concurrency, min_part_size >>
engineVars == << current_buffer, current_part_idx, tasks, completed_parts,
                 wstate, failure, closeResult >>
stubVars == << uploadLog, completeCalls, failedParts, reverseOrder >>
backendVars == << blocks, objects >>
writerVars == << callerVars, configVars, engineVars, stubVars >>
signVars == << sgArgs, sgRet >>
storeVars == << pendingCopy, sret, created, held, aborted, completed >>
vars == << writerVars, backendVars, signVars, storeVars >>

(***************************************************************************)
(* Helpers on sequences.                                                   *)
(***************************************************************************)
RECURSIVE Concat(_)
Concat(ss) == IF ss = << >> THEN << >> ELSE Head(ss) \o Concat(Tail(ss))

Range(s) == { s[i] : i \in DOMAIN s }

\* All sequences over S of length at most n.
SeqsUpTo(S, n) == UNION { [1..k -> S] : k \in 0..n }

(***************************************************************************)
(* The backend client (client::AzureClient).                               *)
(***************************************************************************)
\* The block id the client derives from a part index.
BlockId(idx) == << "block", idx >>

BlockIds == { BlockId(i) : i \in 0..(MaxParts + 1) }

\* What a request to the backend answers: the result, the value of a
\* success, the error of a failure, and the backend's state after it.
Resp(ok, err, val, blk, obj) ==
    [ok |-> ok, err |-> err, val |-> val, blocks |-> blk, objects |-> obj,
     reqs |-> 1]

\* PUT block: stages `data` as the block of `idx` under `path`; a later
\* block of the same id replaces the earlier one.  `ok` is the outcome of
\* the transport.  The value is the PartId.
put_block(blk, obj, path, idx, data, ok) ==
    IF ok
    THEN Resp(TRUE, "", Some([content_id |-> BlockId(idx)]),
              [blk EXCEPT ![path][BlockId(idx)] = Some(data)], obj)
    ELSE Resp(FALSE, "Transport", None, blk, obj)

\* PUT block list: commits the blob of `path` as the concatenation of the
\* staged blocks the list names, in the order of the list.  The backend
\* rejects a list that names a block that is not staged.
put_block_list(blk, obj, path, parts, ok) ==
    IF ~ok
    THEN Resp(FALSE, "Transport", None, blk, obj)
    ELSE IF \E i \in DOMAIN parts : blk[path][parts[i].content_id] = None
    THEN Resp(FALSE, "InvalidBlockList", None, blk, obj)
    ELSE Resp(TRUE, "", None, blk,
              [obj EXCEPT ![path] =
                  Some(Concat([i \in DOMAIN parts |->
                                  blk[path][parts[i].content_id][1]]))])

\* Copy blob: with `overwrite` unset the backend itself refuses the copy
\* when the destination exists; the check and the copy are one request.
copy_request(blk, obj, from, to, overwrite, ok) ==
    IF ~ok
    THEN Resp(FALSE, "Transport", None, blk, obj)
    ELSE IF obj[from] = None
    THEN Resp(FALSE, "NotFound", None, blk, obj)
    ELSE IF ~overwrite /\ obj[to] # None
    THEN Resp(FALSE, "AlreadyExists", None, blk, obj)
    ELSE Resp(TRUE, "", None, blk, [obj EXCEPT ![to] = obj[from]])

\* Put blob: the blob of `path` becomes `data`.
put_blob(blk, obj, path, data, ok) ==
    IF ok
    THEN Resp(TRUE, "", None, blk, [obj EXCEPT ![path] = Some(data)])
    ELSE Resp(FALSE, "Transport", None, blk, obj)

\* Delete blob.
delete_request(blk, obj, path, ok) ==
    IF ~ok
    THEN Resp(FALSE, "Transport", None, blk, obj)
    ELSE IF obj[path] = None
    THEN Resp(FALSE, "NotFound", None, blk, obj)
    ELSE Resp(TRUE, "", None, blk, [obj EXCEPT ![path] = None])

(***************************************************************************)
(* The facade: ObjectStore::put_multipart and AzureMultiPartUpload.        *)
(***************************************************************************)
put_multipart_Conc9(location) ==
    [id |-> "",
     inner |-> [location |-> location],
     max_concurrency |-> MaxConcurrency + 1]

put_multipart_Conc0(location) ==
    [id |-> "",
     inner |-> [location |-> location],
     max_concurrency |-> 0]

\* mod.rs:97-106
put_multipart(location) ==
    [id |-> "",
     inner |-> [location |-> location],
     max_concurrency |-> MaxConcurrency]

AzurePutPart_Idx0(self, buf, idx, blk, obj, ok) ==
    put_block(blk, obj, self.location, 0, buf, ok)

AzurePutPart_Empty(self, buf, idx, blk, obj, ok) ==
    put_block(blk, obj, self.location, idx, << >>, ok)

AzurePutPart_Idx1(self, buf, idx, blk, obj, ok) ==
    put_block(blk, obj, self.location, idx + 1, buf, ok)

AzurePutPart_Swallow(self, buf, idx, blk, obj, ok) ==
    [put_block(blk, obj, self.location, idx, buf, ok) EXCEPT
        !.ok = TRUE, !.val = Some([content_id |-> BlockId(idx)])]

\* mod.rs:208-210 -- PutPart::put_part
AzurePutPart(self, buf, idx, blk, obj, ok) ==
    put_block(blk, obj, self.location, idx, buf, ok)

Reverse(s) == [i \in 1..Len(s) |-> s[Len(s) + 1 - i]]

AzureComplete_Rev(self, parts, blk, obj, ok) ==
    put_block_list(blk, obj, self.location, Reverse(parts), ok)

AzureComplete_NoCommit(self, parts, blk, obj, ok) ==
    Resp(ok, "", None, blk, obj)

AzureComplete_Swallow(self, parts, blk, obj, ok) ==
    [put_block_list(blk, obj, self.location, parts, ok) EXCEPT
        !.ok = TRUE, !.err = ""]

AzureComplete_Err(self, parts, blk, obj, ok) ==
    [put_block_list(blk, obj, self.location, parts, ok) EXCEPT
        !.ok = FALSE, !.err = "Generic"]

\* mod.rs:212-215 -- PutPart::complete
AzureComplete(self, parts, blk, obj, ok) ==
    put_block_list(blk, obj, self.location, parts, ok)

(***************************************************************************)
(* WriteMultiPart: the streaming engine.                                   *)
(***************************************************************************)
Room == Cardinality(tasks) < max_concurrency

\* The completion list: the filled slots, in index order.
CompletionList(slots) ==
    Concat([i \in DOMAIN slots |-> slots[i]])

SetSlot_Append(slots, idx, part) == Append(slots, part)

\* completed_parts[idx] = Some(part), growing the vector as needed.
SetSlot(slots, idx, part) ==
    [i \in 1..(IF Len(slots) > idx THEN Len(slots) ELSE idx + 1) |->
        IF i = idx + 1 THEN part
        ELSE IF i <= Len(slots) THEN slots[i] ELSE None]

ShouldCarve_NonEmpty(buf, min) == Len(buf) > 0

\* Whether the accumulated buffer is carved off as a part.
ShouldCarve(buf, min) == Len(buf) >= min

\* Carve `buf` off as the part of the next index and start its upload.
Carve(buf) ==
    /\ tasks' = tasks \cup {[idx |-> current_part_idx, buf |-> buf]}
    /\ uploadLog' = Append(uploadLog, [idx |-> current_part_idx, buf |-> buf])
    /\ current_part_idx' = current_part_idx + 1
    /\ current_buffer' = << >>

\* write(bytes): the caller writes the next k bytes of its input (k may be
\* 0).  The bytes join the buffer; a buffer that has reached the minimum
\* part size is carved off whole.  With the concurrency budget exhausted
\* the write is suspended, holding the buffer.  After a failure the write
\* returns an error.
Write(k) ==
    /\ wstate = "open"
    /\ written + k <= Len(input)
    /\ IF failure # None
       THEN /\ ret' = [op |-> "write", res |-> "err"]
            /\ UNCHANGED << written, engineVars, stubVars >>
       ELSE LET buf == current_buffer \o SubSeq(input, written + 1, written + k)
            IN  /\ written' = written + k
                /\ IF ShouldCarve(buf, min_part_size)
                   THEN IF Room
                        THEN /\ Carve(buf)
                             /\ ret' = [op |-> "write", res |-> "ok"]
                             /\ UNCHANGED wstate
                        ELSE /\ current_buffer' = buf
                             /\ wstate' = "suspended"
                             /\ ret' = [op |-> "write", res |-> "pending"]
                             /\ UNCHANGED << tasks, uploadLog, current_part_idx >>
                   ELSE /\ current_buffer' = buf
                        /\ ret' = [op |-> "write", res |-> "ok"]
                        /\ UNCHANGED << tasks, uploadLog, current_part_idx, wstate >>
                /\ UNCHANGED << completed_parts, failure, closeResult,
                                completeCalls, failedParts, reverseOrder >>
    /\ UNCHANGED << signVars, storeVars >>
    /\ UNCHANGED << input, sizes, configVars, backendVars >>

\* close(): the remaining bytes become the final part, of any size, the
\* empty one included; with the budget exhausted the close is suspended.
\* After a failure close returns an error and carves nothing.
Close ==
    /\ wstate = "open"
    /\ IF failure # None
       THEN /\ wstate' = "closed"
            /\ closeResult' = "err"
            /\ ret' = [op |-> "close", res |-> "err"]
            /\ UNCHANGED << tasks, uploadLog, current_part_idx, current_buffer >>
       ELSE /\ ret' = [op |-> "close", res |-> "pending"]
            /\ UNCHANGED closeResult
            /\ IF Room
               THEN /\ Carve(current_buffer)
                    /\ wstate' = "draining"
               ELSE /\ wstate' = "closeSuspended"
                    /\ UNCHANGED << tasks, uploadLog, current_part_idx,
                                    current_buffer >>
    /\ UNCHANGED << signVars, storeVars >>
    /\ UNCHANGED << input, sizes, written, configVars, completed_parts, failure,
                    completeCalls, failedParts, reverseOrder, backendVars >>

\* The suspended write or close goes on once an upload has returned.
Resume ==
    /\ wstate \in {"suspended", "closeSuspended"}
    /\ failure = None
    /\ Room
    /\ Carve(current_buffer)
    /\ IF wstate = "suspended"
       THEN /\ wstate' = "open"
            /\ ret' = [op |-> "write", res |-> "ok"]
       ELSE /\ wstate' = "draining"
            /\ UNCHANGED ret
    /\ UNCHANGED << signVars, storeVars >>
    /\ UNCHANGED << input, sizes, written, configVars, completed_parts, failure,
                    closeResult, completeCalls, failedParts, reverseOrder,
                    backendVars >>

Observe_Last(first, err) == Some(err)

\* The writer observes the error `err` of an upload while it holds `first`
\* (None, or the error it observed first): it keeps the first one.
Observe(first, err) == IF first = None THEN Some(err) ELSE first

\* The indices whose upload has returned.
Returned ==
    { i \in 0..(Len(completed_parts) - 1) : completed_parts[i + 1] # None }
        \cup failedParts

\* The upload of part t returns; `ok` is whether the backend took the
\* request.  On success the PartId fills the slot of the part's index.  On
\* an error the writer keeps the first error it observes, and a write or
\* close that is waiting returns it.
UploadReturn(t, ok) ==
    /\ t \in tasks
    /\ ok \/ Cardinality(failedParts) < MaxFailures
    /\ LET r == AzurePutPart(inner, t.buf, t.idx, blocks, objects, ok)
       IN  /\ blocks' = r.blocks
           /\ IF r.ok
              THEN /\ completed_parts' = SetSlot(completed_parts, t.idx, r.val)
                   /\ UNCHANGED << failure, wstate, closeResult, ret >>
              ELSE /\ failure' = Observe(failure,
                                         [kind |-> "put_part", idx |-> t.idx])
                   /\ UNCHANGED completed_parts
                   /\ IF wstate = "suspended"
                      THEN /\ wstate' = "open"
                           /\ ret' = [op |-> "write", res |-> "err"]
                           /\ UNCHANGED closeResult
                      ELSE IF wstate \in {"closeSuspended", "draining"}
                      THEN /\ wstate' = "closed"
                           /\ closeResult' = "err"
                           /\ ret' = [op |-> "close", res |-> "err"]
                      ELSE UNCHANGED << wstate, closeResult, ret >>
    /\ tasks' = tasks \ {t}
    /\ failedParts' = IF ok THEN failedParts ELSE failedParts \cup {t.idx}
    /\ reverseOrder' = (reverseOrder /\ \A j \in Returned : t.idx < j)
    /\ UNCHANGED << signVars, storeVars >>
    /\ UNCHANGED << input, sizes, written, configVars, current_buffer,
                    current_part_idx, uploadLog, completeCalls, objects >>

\* Every upload has returned successfully: close invokes complete with the
\* ordered list of part identifiers.
InvokeComplete ==
    /\ wstate = "draining"
    /\ tasks = {}
    /\ failure = None
    /\ completeCalls' = Append(completeCalls, CompletionList(completed_parts))
    /\ wstate' = "completing"
    /\ UNCHANGED << signVars, storeVars >>
    /\ UNCHANGED << callerVars, configVars, current_buffer, current_part_idx,
                    tasks, completed_parts, failure, closeResult, uploadLog,
                    failedParts, reverseOrder, backendVars >>

\* complete returns: close returns its result.
CompleteReturn(ok) ==
    /\ wstate = "completing"
    /\ LET r == AzureComplete(inner, completeCalls[Len(completeCalls)],
                              blocks, objects, ok)
       IN  /\ objects' = r.objects
           /\ IF r.ok
              THEN /\ closeResult' = "ok"
                   /\ ret' = [op |-> "close", res |-> "ok"]
                   /\ UNCHANGED failure
              ELSE /\ closeResult' = "err"
                   /\ ret' = [op |-> "close", res |-> "err"]
                   /\ failure' = Some([kind |-> "complete", idx |-> 0])
    /\ wstate' = "closed"
    /\ UNCHANGED << signVars, storeVars >>
    /\ UNCHANGED << input, sizes, written, configVars, current_buffer,
                    current_part_idx, tasks, completed_parts, stubVars, blocks >>

(***************************************************************************)
(* The streaming writer's specifications.                                  *)
(***************************************************************************)
InitWriter ==
    LET w == put_multipart(Loc)
    IN  /\ inner = w.inner
        /\ max_concurrency = w.max_concurrency
        /\ current_buffer = << >>
        /\ current_part_idx = 0
        /\ tasks = {}
        /\ completed_parts = << >>
        /\ wstate = "open"
        /\ failure = None
        /\ closeResult = "none"
        /\ uploadLog = << >>
        /\ completeCalls = << >>
        /\ failedParts = {}
        /\ reverseOrder = TRUE
        /\ written = 0
        /\ ret = [op |-> "none", res |-> "none"]
        /\ blocks = [p \in Paths |-> [b \in BlockIds |-> None]]
        /\ objects = [p \in Paths |-> None]

InitSigner ==
    /\ sgArgs = None
    /\ sgRet = None

InitStore ==
    /\ pendingCopy = None
    /\ sret = [op |-> "none", ok |-> TRUE, err |-> "", reqs |-> 0,
               call |-> << >>]
    /\ created = [c \in Callers |-> None]
    /\ held = [c \in Callers |-> << >>]
    /\ aborted = None
    /\ completed = << >>

\* No streaming writer is in use.
InitNoWriter ==
    /\ input = << >>
    /\ sizes = {}
    /\ min_part_size = MinPartSize
    /\ InitWriter

\* The run of the worked example: ExampleWrites writes of ExampleWriteSize
\* each against a minimum part size of ExampleMinPartSize (the unit is the
\* MiB: three writes of 4 MiB, minimum part size 5 MiB).
ExampleMinPartSize == 5
ExampleWriteSize == 4
ExampleWrites == 3

ExampleRun ==
    /\ min_part_size = ExampleMinPartSize
    /\ sizes = {ExampleWriteSize}
    /\ Len(input) = ExampleWrites * ExampleWriteSize

\* The caller either makes a long run of whole parts, enough to exhaust the
\* concurrency budget, in which the byte at position p is p; or writes a
\* short byte sequence, any one, split in any way; or makes the run of the
\* worked example.
Init ==
    /\ \/ /\ input = [p \in 1..(MaxParts * MinPartSize) |-> p]
          /\ sizes = {0, MinPartSize}
          /\ min_part_size = MinPartSize
       \/ /\ input \in SeqsUpTo({0, 1}, MaxDataLen)
          /\ sizes = 0..MaxChunk
          /\ min_part_size = MinPartSize
       \/ /\ input = [p \in 1..(ExampleWrites * ExampleWriteSize) |-> p]
          /\ sizes = {ExampleWriteSize}
          /\ min_part_size = ExampleMinPartSize
    /\ InitWriter
    /\ InitSigner
    /\ InitStore

Next ==
    \/ \E k \in sizes : Write(k)
    \/ Close
    \/ Resume
    \/ \E t \in tasks, ok \in BOOLEAN : UploadReturn(t, ok)
    \/ InvokeComplete
    \/ \E ok \in BOOLEAN : CompleteReturn(ok)

Spec == Init /\ [][Next]_vars

\* The scheduling of the writer.  The uploads in flight are driven by the
\* writer's own poll and every request to the backend returns, with success
\* or with an error; a suspended write or close is woken when an upload has
\* returned; a close that has seen every upload return goes on to complete.
\* The caller is under no obligation to write or to close.
Fairness ==
    /\ WF_vars(Resume)
    /\ WF_vars(\E t \in tasks, ok \in BOOLEAN : UploadReturn(t, ok))
    /\ WF_vars(InvokeComplete)
    /\ WF_vars(\E ok \in BOOLEAN : CompleteReturn(ok))

SpecFair == Init /\ [][Next]_vars /\ Fairness

(***************************************************************************)
(* The Signer.                                                             *)
(***************************************************************************)
Methods == {"GET", "PUT"}
Expiries == {60, 3600}

\* mod.rs:75-77 -- the URL of `path`, with no query yet.
path_url(path) ==
    [base |-> "https://account.blob.core.windows.net/container",
     path |-> path,
     query |-> << >>]

\* client.signer(expires_in): acquires a signing credential, after the n
\* acquisitions the call has made already; `credOk` is whether the
\* credential provider answers.
client_signer(expires_in, credOk, n) ==
    IF credOk
    THEN [ok |-> TRUE, err |-> "", acquired |-> n + 1,
          val |-> Some([key |-> n + 1, expires_in |-> expires_in])]
    ELSE [ok |-> FALSE, err |-> "Credential", acquired |-> n + 1,
          val |-> None]

\* signer.sign(&method, &mut url): the URL with the SAS query parameters;
\* signing fails for the paths of `bad`.
signer_sign(signer, method, url, bad) ==
    IF url.path \in bad
    THEN [ok |-> FALSE, err |-> "Signing", url |-> url]
    ELSE [ok |-> TRUE, err |-> "",
          url |-> [url EXCEPT !.query =
                      << signer.key, method, signer.expires_in, url.path >>]]

\* mod.rs:186-190 -- the loop over the paths, with one signer.
RECURSIVE SignEach(_, _, _, _, _, _)
SignEach(signer, method, paths, urls, signed, bad) ==
    IF paths = << >>
    THEN [ok |-> TRUE, err |-> "", urls |-> urls, signed |-> signed]
    ELSE LET r == signer_sign(signer, method, path_url(Head(paths)), bad)
         IN  IF ~r.ok
             THEN [ok |-> FALSE, err |-> r.err, urls |-> urls,
                   signed |-> Append(signed, Head(paths))]
             ELSE SignEach(signer, method, Tail(paths), Append(urls, r.url),
                           Append(signed, Head(paths)), bad)

\* A loop that acquires a signer for each path.
RECURSIVE SignEachFresh(_, _, _, _, _, _, _, _)
SignEachFresh(expires_in, credOk, method, paths, urls, signed, acq, bad) ==
    IF paths = << >>
    THEN [ok |-> TRUE, err |-> "", urls |-> urls, signed |-> signed,
          acquired |-> acq]
    ELSE LET s == client_signer(expires_in, credOk, acq)
         IN  IF ~s.ok
             THEN [ok |-> FALSE, err |-> s.err, urls |-> urls,
                   signed |-> signed, acquired |-> s.acquired]
             ELSE LET r == signer_sign(s.val[1], method,
                                       path_url(Head(paths)), bad)
                  IN  IF ~r.ok
                      THEN [ok |-> FALSE, err |-> r.err, urls |-> urls,
                            signed |-> Append(signed, Head(paths)),
                            acquired |-> s.acquired]
                      ELSE SignEachFresh(expires_in, credOk, method,
                                         Tail(paths), Append(urls, r.url),
                                         Append(signed, Head(paths)),
                                         s.acquired, bad)

signed_urls_PerPath(method, paths, expires_in, credOk, bad) ==
    LET r == SignEachFresh(expires_in, credOk, method, paths, << >>, << >>,
                           0, bad)
    IN  [ok |-> r.ok, err |-> r.err,
         urls |-> IF r.ok THEN r.urls ELSE << >>,
         acquired |-> r.acquired,
         signed |-> r.signed]

signed_urls_Partial(method, paths, expires_in, credOk, bad) ==
    LET s == client_signer(expires_in, credOk, 0)
    IN  IF ~s.ok
        THEN [ok |-> FALSE, err |-> s.err, urls |-> << >>,
              acquired |-> s.acquired, signed |-> << >>]
        ELSE LET r == SignEach(s.val[1], method, paths, << >>, << >>, bad)
             IN  [ok |-> TRUE, err |-> "", urls |-> r.urls,
                  acquired |-> s.acquired, signed |-> r.signed]

\* mod.rs:178-192 -- Signer::signed_urls.  The result carries, beside the
\* Result<Vec<Url>>, how many credentials the call acquired and the paths
\* it signed, in order.
signed_urls(method, paths, expires_in, credOk, bad) ==
    LET s == client_signer(expires_in, credOk, 0)
    IN  IF ~s.ok
        THEN [ok |-> FALSE, err |-> s.err, urls |-> << >>,
              acquired |-> s.acquired, signed |-> << >>]
        ELSE LET r == SignEach(s.val[1], method, paths, << >>, << >>, bad)
             IN  [ok |-> r.ok, err |-> r.err,
                  urls |-> IF r.ok THEN r.urls ELSE << >>,
                  acquired |-> s.acquired,
                  signed |-> r.signed]

\* mod.rs:171-176 -- Signer::signed_url
signed_url(method, path, expires_in, credOk, bad) ==
    LET url == path_url(path)
        s == client_signer(expires_in, credOk, 0)
    IN  IF ~s.ok
        THEN [ok |-> FALSE, err |-> s.err, urls |-> << >>,
              acquired |-> s.acquired, signed |-> << >>]
        ELSE LET r == signer_sign(s.val[1], method, url, bad)
             IN  [ok |-> r.ok, err |-> r.err,
                  urls |-> IF r.ok THEN << r.url >> ELSE << >>,
                  acquired |-> s.acquired,
                  signed |-> << path >>]

\* A caller signs a batch of paths.
SignedUrls(method, paths, expires_in, credOk, bad) ==
    /\ sgArgs' = Some([api |-> "signed_urls", method |-> method,
                       paths |-> paths, expires_in |-> expires_in,
                       credOk |-> credOk, bad |-> bad])
    /\ sgRet' = Some(signed_urls(method, paths, expires_in, credOk, bad))
    /\ UNCHANGED << writerVars, backendVars, storeVars >>

\* A caller signs one path.
SignedUrl(method, path, expires_in, credOk, bad) ==
    /\ sgArgs' = Some([api |-> "signed_url", method |-> method,
                       paths |-> << path >>, expires_in |-> expires_in,
                       credOk |-> credOk, bad |-> bad])
    /\ sgRet' = Some(signed_url(method, path, expires_in, credOk, bad))
    /\ UNCHANGED << writerVars, backendVars, storeVars >>

InitSign ==
    /\ InitNoWriter
    /\ InitSigner
    /\ InitStore

NextSign ==
    \/ \E m \in Methods, ps \in SeqsUpTo(Paths, MaxSignPaths), e \in Expiries,
          credOk \in BOOLEAN, bad \in SUBSET Paths :
            SignedUrls(m, ps, e, credOk, bad)
    \/ \E m \in Methods, p \in Paths, e \in Expiries,
          credOk \in BOOLEAN, bad \in SUBSET Paths :
            SignedUrl(m, p, e, credOk, bad)

SpecSign == InitSign /\ [][NextSign]_vars

(***************************************************************************)
(* The facade: ObjectStore put, delete, copy and copy_if_not_exists.       *)
(***************************************************************************)
\* mod.rs:93-95 -- ObjectStore::put_opts, with the default options
put_opts(location, bytes, blk, obj, ok) ==
    put_blob(blk, obj, location, bytes, ok)

\* mod.rs:118-120 -- ObjectStore::delete
delete(location, blk, obj, ok) ==
    delete_request(blk, obj, location, ok)

\* mod.rs:130-132 -- ObjectStore::copy
copy(from, to, blk, obj, ok) ==
    copy_request(blk, obj, from, to, TRUE, ok)

copy_if_not_exists_Overwrite(from, to, blk, obj, ok) ==
    copy_request(blk, obj, from, to, TRUE, ok)

\* mod.rs:134-136 -- ObjectStore::copy_if_not_exists
copy_if_not_exists(from, to, blk, obj, ok) ==
    copy_request(blk, obj, from, to, FALSE, ok)

\* What a caller of the store gets back, with the requests the call made.
Returns(op, r, call) ==
    [op |-> op, ok |-> r.ok, err |-> r.err, reqs |-> r.reqs, call |-> call]

\* The blobs the other clients put.
Blobs == { << 7 >>, << 8 >> }

\* A client puts a blob.
PutOpts(p, d, ok) ==
    /\ LET r == put_opts(p, d, blocks, objects, ok)
       IN  /\ blocks' = r.blocks
           /\ objects' = r.objects
           /\ sret' = Returns("put_opts", r, [path |-> p])
    /\ UNCHANGED << writerVars, signVars, pendingCopy, created, held, aborted,
                    completed >>

\* A client deletes a blob.
Delete(p, ok) ==
    /\ LET r == delete(p, blocks, objects, ok)
       IN  /\ blocks' = r.blocks
           /\ objects' = r.objects
           /\ sret' = Returns("delete", r, [path |-> p])
    /\ UNCHANGED << writerVars, signVars, pendingCopy, created, held, aborted,
                    completed >>

\* A client calls copy or copy_if_not_exists: its request is on its way.
\* `seen` is the destination as it is at the time of the call.
CopyCall(api, from, to) ==
    /\ pendingCopy = None
    /\ pendingCopy' = Some([api |-> api, from |-> from, to |-> to,
                            seen |-> objects[to]])
    /\ UNCHANGED << writerVars, backendVars, signVars, sret, created, held,
                    aborted, completed >>

\* The backend handles the copy request and the call returns.
CopyReturn(ok) ==
    /\ pendingCopy # None
    /\ LET c == pendingCopy[1]
           r == IF c.api = "copy"
                THEN copy(c.from, c.to, blocks, objects, ok)
                ELSE copy_if_not_exists(c.from, c.to, blocks, objects, ok)
       IN  /\ blocks' = r.blocks
           /\ objects' = r.objects
           /\ sret' = Returns(c.api, r, c)
    /\ pendingCopy' = None
    /\ UNCHANGED << writerVars, signVars, created, held, aborted,
                    completed >>

InitCopy ==
    /\ InitNoWriter
    /\ InitSigner
    /\ InitStore

NextCopy ==
    \/ \E p \in Paths, d \in Blobs, ok \in BOOLEAN : PutOpts(p, d, ok)
    \/ \E p \in Paths, ok \in BOOLEAN : Delete(p, ok)
    \/ \E api \in {"copy", "copy_if_not_exists"}, from \in Paths, to \in Paths :
          CopyCall(api, from, to)
    \/ \E ok \in BOOLEAN : CopyReturn(ok)

SpecCopy == InitCopy /\ [][NextCopy]_vars

(***************************************************************************)
(* The facade: abort_multipart and the MultiPartStore.                     *)
(***************************************************************************)
ObjectStore_abort_multipart_Delete(location, multipart_id, blk, obj) ==
    [delete_request(blk, obj, location, TRUE) EXCEPT !.ok = TRUE, !.err = ""]

\* mod.rs:108-112 -- ObjectStore::abort_multipart
ObjectStore_abort_multipart(location, multipart_id, blk, obj) ==
    [ok |-> TRUE, err |-> "", val |-> None, blocks |-> blk, objects |-> obj,
     reqs |-> 0]

\* mod.rs:220-222 -- MultiPartStore::create_multipart
create_multipart(path) ==
    [ok |-> TRUE, err |-> "", val |-> "", reqs |-> 0]

\* mod.rs:224-232 -- MultiPartStore::put_part
MultiPartStore_put_part(path, multipart_id, part_idx, data, blk, obj, ok) ==
    put_block(blk, obj, path, part_idx, data, ok)

RECURSIVE InsertPart(_, _)
InsertPart(s, p) ==
    IF s = << >> THEN << p >>
    ELSE IF p.content_id[2] < Head(s).content_id[2] THEN << p >> \o s
    ELSE << Head(s) >> \o InsertPart(Tail(s), p)

RECURSIVE SortParts(_)
SortParts(s) ==
    IF s = << >> THEN << >> ELSE InsertPart(SortParts(Tail(s)), Head(s))

complete_multipart_Sorted(path, multipart_id, parts, blk, obj, ok) ==
    put_block_list(blk, obj, path, SortParts(parts), ok)

\* mod.rs:234-241 -- MultiPartStore::complete_multipart
complete_multipart(path, multipart_id, parts, blk, obj, ok) ==
    put_block_list(blk, obj, path, parts, ok)

\* mod.rs:243-247 -- MultiPartStore::abort_multipart
MultiPartStore_abort_multipart(path, multipart_id, blk, obj) ==
    [ok |-> TRUE, err |-> "", val |-> None, blocks |-> blk, objects |-> obj,
     reqs |-> 0]

\* The multipart ids a caller may pass: the one create_multipart returns and
\* one that no session was ever given.
MultipartIds == {"", "x"}

\* The bytes caller c uploads as its part of index idx.
PartData(c, idx) == << 10 * c + idx >>

\* The block ids staged under path p.
Staged(blk, p) == { b \in BlockIds : blk[p][b] # None }

\* Caller c opens a multipart session on path p.
CreateMultipart(c, p) ==
    /\ created[c] = None
    /\ LET r == create_multipart(p)
       IN  /\ created' = [created EXCEPT ![c] = Some([path |-> p, id |-> r.val])]
           /\ sret' = Returns("create_multipart", r, [caller |-> c, path |-> p])
    /\ UNCHANGED << writerVars, backendVars, signVars, pendingCopy, held,
                    aborted, completed >>

\* Caller c uploads its part of index idx, which it does not hold yet.  A
\* caller whose session has been completed makes no further call on it.
PutPart(c, idx, ok) ==
    /\ created[c] # None
    /\ c \notin Range(completed)
    /\ \A i \in DOMAIN held[c] : held[c][i] # [content_id |-> BlockId(idx)]
    /\ LET m == created[c][1]
           r == MultiPartStore_put_part(m.path, m.id, idx, PartData(c, idx),
                                        blocks, objects, ok)
       IN  /\ blocks' = r.blocks
           /\ objects' = r.objects
           /\ held' = IF r.ok THEN [held EXCEPT ![c] = Append(@, r.val[1])]
                      ELSE held
           /\ sret' = Returns("put_part", r, [caller |-> c, path |-> m.path])
    /\ UNCHANGED << writerVars, signVars, pendingCopy, created, aborted,
                    completed >>

\* Caller c completes its session with the parts it holds.
CompleteMultipart(c, ok) ==
    /\ created[c] # None
    /\ c \notin Range(completed)
    /\ LET m == created[c][1]
           r == complete_multipart(m.path, m.id, held[c], blocks, objects, ok)
       IN  /\ blocks' = r.blocks
           /\ objects' = r.objects
           /\ completed' = IF r.ok THEN Append(completed, c) ELSE completed
           /\ sret' = Returns("complete_multipart", r,
                              [caller |-> c, path |-> m.path])
    /\ UNCHANGED << writerVars, signVars, pendingCopy, created, held, aborted >>

\* A caller aborts the multipart upload `id` of path p through the
\* ObjectStore interface.
AbortObjectStore(p, id) ==
    /\ LET r == ObjectStore_abort_multipart(p, id, blocks, objects)
       IN  /\ blocks' = r.blocks
           /\ objects' = r.objects
           /\ sret' = Returns("ObjectStore::abort_multipart", r,
                              [path |-> p, id |-> id])
    /\ aborted' = Some([path |-> p, staged |-> Staged(blocks, p)])
    /\ UNCHANGED << writerVars, signVars, pendingCopy, created, held,
                    completed >>

\* A caller aborts it through the MultiPartStore interface.
AbortMultiPartStore(p, id) ==
    /\ LET r == MultiPartStore_abort_multipart(p, id, blocks, objects)
       IN  /\ blocks' = r.blocks
           /\ objects' = r.objects
           /\ sret' = Returns("MultiPartStore::abort_multipart", r,
                              [path |-> p, id |-> id])
    /\ aborted' = Some([path |-> p, staged |-> Staged(blocks, p)])
    /\ UNCHANGED << writerVars, signVars, pendingCopy, created, held,
                    completed >>

InitMultiPartStore ==
    /\ InitNoWriter
    /\ InitSigner
    /\ InitStore

NextMultiPartStore ==
    \/ \E c \in Callers : CreateMultipart(c, Loc)
    \/ \E c \in Callers, idx \in 0..MaxPartIdx, ok \in BOOLEAN : PutPart(c, idx, ok)
    \/ \E c \in Callers, ok \in BOOLEAN : CompleteMultipart(c, ok)
    \/ \E p \in Paths, id \in MultipartIds : AbortObjectStore(p, id)
    \/ \E p \in Paths, id \in MultipartIds : AbortMultiPartStore(p, id)

SpecMultiPartStore == InitMultiPartStore /\ [][NextMultiPartStore]_vars

(***************************************************************************)
(* Properties of the streaming writer.                                     *)
(***************************************************************************)
\* The PartId the backend issues for the part of index i.
PartIdOf(i) == [content_id |-> BlockId(i)]

\* The bytes the caller has written.
Original == SubSeq(input, 1, written)

\* C1: in every reachable state the number of part uploads that have
\* started and not yet returned is at most 8, the concurrency bound that
\* put_multipart gives the writer.
C1_InFlightBounded == Cardinality(tasks) <= MaxConcurrency

\* C1 witness: the budget is exhausted (8 uploads in flight) and a further
\* part is ready, so the writer is suspended.
C1_Witness ==
    /\ Cardinality(tasks) = MaxConcurrency
    /\ wstate = "suspended"
    /\ Len(current_buffer) >= min_part_size

\* C2: every list the writer passes to complete names the parts of the
\* indices 0, 1, ..., n-1 in ascending order, once each and none missing,
\* whatever the order in which the uploads returned.
C2_CompletionOrdered ==
    \A c \in DOMAIN completeCalls :
        completeCalls[c] = [i \in 1..current_part_idx |-> PartIdOf(i - 1)]

\* C2 witness: complete has been invoked with three parts or more whose
\* uploads returned in exact reverse order of their indices.
C2_Witness ==
    /\ completeCalls # << >>
    /\ Len(completeCalls[1]) >= 3
    /\ reverseOrder

\* C3: once the upload of any part has failed, complete is never invoked,
\* no object is committed at the writer's location, close does not return
\* success, and a close that has returned has returned an error.
C3_FailureNeverCompletes ==
    failedParts # {} =>
        /\ completeCalls = << >>
        /\ objects[Loc] = None
        /\ closeResult # "ok"
        /\ wstate \in {"open", "closed"}
        /\ wstate = "closed" => closeResult = "err" /\ ret.res = "err"

\* C3 witness: an upload failed while others were in flight, some part had
\* been uploaded, and a later close returned the error.
C3_Witness ==
    /\ failedParts # {}
    /\ tasks # {}
    /\ \E i \in DOMAIN completed_parts : completed_parts[i] # None
    /\ wstate = "closed"
    /\ ret = [op |-> "close", res |-> "err"]

\* C4: when all uploads and the completion succeeded, the concatenation, in
\* the order of the completion list, of the staged parts it names is the
\* byte sequence the caller wrote, and that is the committed object.
C4_RoundTrip ==
    closeResult = "ok" =>
        LET list == completeCalls[Len(completeCalls)]
        IN  /\ \A i \in DOMAIN list : blocks[Loc][list[i].content_id] # None
            /\ Concat([i \in DOMAIN list |->
                          blocks[Loc][list[i].content_id][1]]) = Original
            /\ objects[Loc] = Some(Original)

\* C4 witness: a byte sequence holding both byte values, written in full,
\* went out in two parts or more and was committed.
C4_Witness ==
    /\ closeResult = "ok"
    /\ written >= 3
    /\ written = Len(input)
    /\ Range(input) = {0, 1}
    /\ current_part_idx >= 2

\* C5: every part handed to put_part other than the one of the highest
\* index has at least the minimum part size; a smaller part is the last
\* one and was emitted by close.
C5_PartSizes ==
    \A i \in DOMAIN uploadLog :
        Len(uploadLog[i].buf) < min_part_size =>
            /\ i = Len(uploadLog)
            /\ wstate \in {"draining", "completing", "closed"}

\* C5 witness: close emitted a final part below the minimum after a part
\* above the minimum.
C5_Witness ==
    /\ Len(uploadLog) >= 2
    /\ Len(uploadLog[1].buf) > min_part_size
    /\ Len(uploadLog[Len(uploadLog)].buf) < min_part_size
    /\ Len(uploadLog[Len(uploadLog)].buf) > 0
    /\ wstate = "closed"

\* C6: a writer that is closed with zero bytes written makes exactly one
\* put_part call, of index 0 with an empty buffer; when the backend fails
\* no request, one complete call with the one-element list follows, close
\* returns success and the committed object is empty.
C6_ZeroByteObject ==
    (written = 0 /\ wstate \in {"draining", "completing", "closed"}) =>
        /\ uploadLog = << [idx |-> 0, buf |-> << >>] >>
        /\ wstate = "completing" => completeCalls = << << PartIdOf(0) >> >>
        /\ (wstate = "closed" /\ failure = None) =>
              /\ completeCalls = << << PartIdOf(0) >> >>
              /\ closeResult = "ok"
              /\ ret = [op |-> "close", res |-> "ok"]
              /\ objects[Loc] = Some(<< >>)

\* C6 witness: a writer with zero bytes written has been closed with
\* success.
C6_Witness ==
    /\ written = 0
    /\ wstate = "closed"
    /\ closeResult = "ok"
    /\ Len(uploadLog) = 1

(***************************************************************************)
(* Properties of the Signer.                                               *)
(***************************************************************************)
\* A signed_urls call has returned.
BatchReturned == sgArgs # None /\ sgArgs[1].api = "signed_urls"

\* C7: a signed_urls call with N paths acquires the signing credential
\* exactly once, whatever N is, and on success returns exactly N URLs, the
\* i-th being the URL of the i-th path signed for the method and the expiry
\* of the call with that one credential.
C7_OneCredentialInOrder ==
    BatchReturned =>
        LET a == sgArgs[1]
            r == sgRet[1]
        IN  /\ r.acquired = 1
            /\ r.ok =>
                /\ Len(r.urls) = Len(a.paths)
                /\ \A i \in DOMAIN a.paths :
                      /\ r.urls[i].path = a.paths[i]
                      /\ r.urls[i].query =
                            << 1, a.method, a.expires_in, a.paths[i] >>

\* C7 witness: a batch of three paths, not all the same, has been signed.
C7_Witness ==
    /\ BatchReturned
    /\ sgRet[1].ok
    /\ Len(sgArgs[1].paths) = 3
    /\ sgArgs[1].paths[1] # sgArgs[1].paths[2]
    /\ Len(sgRet[1].urls) = 3

\* C8: a signed_urls call either fails and returns no URL, or succeeds and
\* returns a URL for every path; when the credential acquisition fails no
\* path is signed, and when signing a path fails the call fails.
C8_AtomicBatch ==
    BatchReturned =>
        LET a == sgArgs[1]
            r == sgRet[1]
        IN  /\ \/ ~r.ok /\ r.urls = << >>
               \/ r.ok /\ Len(r.urls) = Len(a.paths)
            /\ ~a.credOk => ~r.ok /\ r.signed = << >> /\ r.err = "Credential"
            /\ (a.credOk /\ Range(a.paths) \cap a.bad # {}) =>
                   ~r.ok /\ r.err = "Signing"

\* C8 witness: signing failed for a path of the batch after an earlier path
\* had been signed, and the call returned the error with no URL.
C8_Witness ==
    /\ BatchReturned
    /\ sgArgs[1].credOk
    /\ Len(sgRet[1].signed) >= 2
    /\ ~sgRet[1].ok
    /\ sgRet[1].urls = << >>

(***************************************************************************)
(* Properties of abort_multipart.                                          *)
(***************************************************************************)
\* The block ids caller c holds.
HeldIds(c) == { held[c][i].content_id : i \in DOMAIN held[c] }

\* C9: every abort_multipart call, on either interface, for every path and
\* every multipart id, in every state, returns success, issues no backend
\* request and leaves the staged parts and the committed objects as they
\* were; and a completion issued, after an abort of its path, with parts
\* that were uploaded before the abort succeeds when the backend answers.
C9_AbortIsNoOp ==
    [][ /\ \A p \in Paths, id \in MultipartIds :
              (AbortObjectStore(p, id) \/ AbortMultiPartStore(p, id)) =>
                  /\ sret'.ok
                  /\ sret'.reqs = 0
                  /\ blocks' = blocks
                  /\ objects' = objects
        /\ \A c \in Callers :
              ( /\ CompleteMultipart(c, TRUE)
                /\ aborted # None
                /\ aborted[1].path = created[c][1].path
                /\ HeldIds(c) \subseteq aborted[1].staged ) =>
                  /\ sret'.ok
                  /\ objects'[created[c][1].path] # None
      ]_vars

\* C9 witness: a path was aborted while all the parts a caller holds were
\* staged under it, and the caller's completion, issued after the abort,
\* has succeeded.
C9_Witness ==
    /\ sret.op = "complete_multipart"
    /\ sret.ok
    /\ aborted # None
    /\ aborted[1].path = sret.call.path
    /\ Len(held[sret.call.caller]) = MaxPartIdx + 1
    /\ HeldIds(sret.call.caller) \subseteq aborted[1].staged
    /\ objects[sret.call.path] # None

(***************************************************************************)
(* Properties of copy and copy_if_not_exists.                              *)
(***************************************************************************)
\* C10: a copy_if_not_exists call is one backend request; when the
\* destination exists at the time the backend handles the request, whatever
\* other clients wrote since the call was made, the call fails and every
\* object is left unchanged; when the destination does not exist the source
\* is copied.  A copy call is one backend request that replaces the
\* destination, existing or not.
C10_CopyIfNotExists ==
    [][ \A ok \in BOOLEAN :
          CopyReturn(ok) =>
            LET c == pendingCopy[1]
                copied == [objects EXCEPT ![c.to] = objects[c.from]]
            IN  /\ sret'.reqs = 1
                /\ (c.api = "copy_if_not_exists" /\ objects[c.to] # None) =>
                       ~sret'.ok /\ objects' = objects
                /\ (c.api = "copy_if_not_exists" /\ ok /\ objects[c.to] # None
                      /\ objects[c.from] # None) =>
                       sret'.err = "AlreadyExists"
                /\ (c.api = "copy_if_not_exists" /\ ok /\ objects[c.to] = None
                      /\ objects[c.from] # None) =>
                       sret'.ok /\ objects' = copied
                /\ (c.api = "copy" /\ ok /\ objects[c.from] # None) =>
                       sret'.ok /\ objects' = copied
      ]_vars

\* C10 witness: the destination did not exist when copy_if_not_exists was
\* called, another client created it while the request was on its way, and
\* the call failed and left the destination as that client wrote it.
C10_Witness ==
    /\ sret.op = "copy_if_not_exists"
    /\ sret.err = "AlreadyExists"
    /\ sret.call.seen = None
    /\ sret.call.from # sret.call.to
    /\ objects[sret.call.to] # None
    /\ objects[sret.call.to] # objects[sret.call.from]

(***************************************************************************)
(* The worked example of the streaming writer.                             *)
(***************************************************************************)
\* The close of the worked example has carved the final part after all
\* three writes and no upload has failed.
ExampleClosed ==
    /\ ExampleRun
    /\ written = Len(input)
    /\ wstate \in {"draining", "completing"} \/ closeResult = "ok"

OwnParts(c) ==
    Concat([i \in DOMAIN held[c] |-> PartData(c, held[c][i].content_id[2])])

\* C12 as stated: every session has the empty id, put_part and
\* complete_multipart answer the same whatever id they are given, and once
\* two sessions on one path have both been completed the object committed
\* at the path consists of exactly the parts that the session completing
\* last uploaded, in that session's order.
C12_LastCompletionOwnParts ==
    /\ \A c \in Callers : created[c] # None => created[c][1].id = ""
    /\ \A c \in Callers, id \in MultipartIds, idx \in 0..MaxPartIdx,
          ok \in BOOLEAN :
          /\ MultiPartStore_put_part(Loc, id, idx, PartData(c, idx),
                                     blocks, objects, ok)
                = MultiPartStore_put_part(Loc, "", idx, PartData(c, idx),
                                          blocks, objects, ok)
          /\ complete_multipart(Loc, id, held[c], blocks, objects, ok)
                = complete_multipart(Loc, "", held[c], blocks, objects, ok)
    /\ Range(completed) = Callers =>
          objects[Loc] = Some(OwnParts(completed[Len(completed)]))

(***************************************************************************)
(* Indices, backpressure, close and failures of the streaming writer.      *)
(***************************************************************************)
\* C13: the k-th part the writer carves is handed to put_part with index
\* k - 1 (0, 1, 2, ... with no gap and no reuse), the parts in index order
\* followed by the buffer are the bytes written so far, an upload in flight
\* carries the index and the bytes its part was carved with, no two uploads
\* in flight carry the same index, and the block staged under the id of an
\* index holds the part carved with that index, in whatever order the
\* uploads return.
C13_IndicesAtCarveTime ==
    /\ Len(uploadLog) = current_part_idx
    /\ \A i \in DOMAIN uploadLog : uploadLog[i].idx = i - 1
    /\ Concat([i \in DOMAIN uploadLog |-> uploadLog[i].buf]) \o current_buffer
          = Original
    /\ \A t \in tasks : t.idx < current_part_idx /\ uploadLog[t.idx + 1] = t
    /\ \A t1, t2 \in tasks : t1.idx = t2.idx => t1 = t2
    /\ \A i \in 0..(MaxParts + 1) :
          blocks[Loc][BlockId(i)] # None =>
              /\ i < current_part_idx
              /\ blocks[Loc][BlockId(i)] = Some(uploadLog[i + 1].buf)

\* C13 witness: with the uploads of parts 0 and 3 in flight, the uploads of
\* parts 2 and 1 have returned, in this order.
C13_Witness ==
    /\ { t.idx : t \in tasks } = {0, 3}
    /\ Len(completed_parts) >= 3
    /\ completed_parts[2] # None
    /\ completed_parts[3] # None
    /\ reverseOrder

\* A write or a close is suspended for want of a free upload slot.
Suspended == wstate \in {"suspended", "closeSuspended"}

\* C14: a writer that is suspended holds the ready part in its buffer (the
\* parts carved so far followed by the buffer are the bytes written), with
\* at most 8 uploads in flight and no further part accepted meanwhile; when
\* the suspension ends without an upload having failed, the buffer has been
\* handed to put_part whole under the next index.  Under the scheduling of
\* the writer every suspension ends, so the upload of the held part is
\* started unless an upload fails first; and the uploads in flight all
\* return.
C14_Backpressure ==
    /\ [](Suspended =>
            /\ Cardinality(tasks) <= MaxConcurrency
            /\ wstate = "suspended" => ShouldCarve(current_buffer, min_part_size)
            /\ Concat([i \in DOMAIN uploadLog |-> uploadLog[i].buf])
                  \o current_buffer = Original)
    /\ [][Suspended =>
            /\ written' = written
            /\ Suspended' =>
                  /\ current_buffer' = current_buffer
                  /\ uploadLog' = uploadLog
            /\ (~Suspended' /\ failure' = None) =>
                  LET part == [idx |-> current_part_idx, buf |-> current_buffer]
                  IN  /\ uploadLog' = Append(uploadLog, part)
                      /\ tasks' = tasks \cup {part}
                      /\ Cardinality(tasks') <= MaxConcurrency]_vars
    /\ Suspended ~> ~Suspended
    /\ (tasks # {}) ~> (tasks = {})

\* C14 witness: a write that was suspended with 8 uploads in flight has gone
\* on: the ninth part is in flight, no upload has failed, and the writer is
\* open again.
C14_Witness ==
    /\ wstate = "open"
    /\ failure = None
    /\ current_part_idx = MaxConcurrency + 1
    /\ ret = [op |-> "write", res |-> "ok"]
    /\ \E t \in tasks : t.idx = MaxConcurrency
    /\ Cardinality(tasks) = MaxConcurrency

\* C15: complete is invoked at most once; when it has been invoked the
\* final part has been carved (the parts handed to put_part are all the
\* bytes written), no upload is in flight, none has failed, every part has
\* its PartId and its block staged; close has not returned while complete
\* is pending; close has returned success only if the one complete call
\* committed the object; and after a complete that failed close has
\* returned an error and nothing is committed.
C15_CloseOrdering ==
    /\ Len(completeCalls) <= 1
    /\ completeCalls # << >> =>
          /\ wstate \in {"completing", "closed"}
          /\ current_buffer = << >>
          /\ Concat([i \in DOMAIN uploadLog |-> uploadLog[i].buf]) = Original
          /\ tasks = {}
          /\ failedParts = {}
          /\ Len(completed_parts) = current_part_idx
          /\ \A i \in DOMAIN completed_parts : completed_parts[i] # None
          /\ \A i \in DOMAIN uploadLog :
                blocks[Loc][BlockId(i - 1)] = Some(uploadLog[i].buf)
    /\ wstate = "completing" => closeResult = "none" /\ ret.res = "pending"
    /\ closeResult = "ok" =>
          /\ Len(completeCalls) = 1
          /\ failure = None
          /\ objects[Loc] # None
    /\ (failure # None /\ failure[1].kind = "complete") =>
          /\ wstate = "closed"
          /\ closeResult = "err"
          /\ ret = [op |-> "close", res |-> "err"]
          /\ objects[Loc] = None

\* C15 witness: after three parts or more were uploaded, complete was
\* invoked and failed, and close has returned the error.
C15_Witness ==
    /\ failure = Some([kind |-> "complete", idx |-> 0])
    /\ Len(completeCalls) = 1
    /\ Len(completeCalls[1]) >= 3
    /\ closeResult = "err"

\* C16: the error the writer holds is the one of the first upload it saw
\* fail, whatever that upload's index; once held it is never replaced, by
\* the failure of a later upload or otherwise; and every write or close made
\* while an error is held returns an error, takes no bytes and starts no
\* upload, as does the write or close that was waiting when the upload
\* failed.
C16_FirstFailure ==
    [][ /\ failure # None => failure' = failure
        /\ (failure = None /\ failure' # None /\ failure'[1].kind = "put_part") =>
              /\ failedParts = {}
              /\ failedParts' = {failure'[1].idx}
              /\ wstate \in {"suspended", "closeSuspended", "draining"} =>
                    ret'.res = "err"
        /\ (failure # None /\ ((\E k \in sizes : Write(k)) \/ Close)) =>
              /\ ret'.res = "err"
              /\ written' = written
              /\ uploadLog' = uploadLog
              /\ tasks' = tasks
        /\ failure' # None => closeResult' # "ok"
        /\ (failure' # None /\ wstate' = "closed") => closeResult' = "err"
      ]_vars

\* C16 witness: the upload of part 1 failed first, the upload of part 0
\* failed after it, the writer holds the error of part 1, and a write made
\* afterwards has returned an error.
C16_Witness ==
    /\ failure = Some([kind |-> "put_part", idx |-> 1])
    /\ failedParts = {0, 1}
    /\ wstate = "open"
    /\ ret = [op |-> "write", res |-> "err"]
    /\ tasks # {}

(***************************************************************************)
(* The part list of MultiPartStore::complete_multipart.                    *)
(***************************************************************************)
\* The part lists a caller may supply: any list of PartIds of the indices
\* 0..MaxPartIdx, in any order, with repetitions and gaps.
PartLists == SeqsUpTo({ PartIdOf(i) : i \in 0..MaxPartIdx }, MaxListLen)

\* The staged blocks that the list names, concatenated in the order of the
\* list.
InListOrder(list) ==
    Concat([i \in DOMAIN list |-> blocks[Loc][list[i].content_id][1]])

\* C17: for every part list, in index order or not, with repetitions or
\* gaps, and every session id, complete_multipart issues one commit request
\* with the list; when every block the list names is staged the request
\* succeeds and the committed object is the concatenation of the named
\* blocks in the order of the list, element for element; otherwise the
\* backend's rejection is returned and nothing is committed.  Every
\* completion a caller makes with the list it holds commits that list's
\* blocks in that list's order.
C17_ListUnchanged ==
    /\ [](\A id \in MultipartIds, list \in PartLists :
            LET r == complete_multipart(Loc, id, list, blocks, objects, TRUE)
            IN  /\ r.reqs = 1
                /\ IF \A i \in DOMAIN list : blocks[Loc][list[i].content_id] # None
                   THEN /\ r.ok
                        /\ r.objects[Loc] = Some(InListOrder(list))
                   ELSE /\ ~r.ok
                        /\ r.err = "InvalidBlockList"
                        /\ r.objects = objects)
    /\ [][\A c \in Callers :
            CompleteMultipart(c, TRUE) =>
                /\ sret'.ok
                /\ objects'[Loc] = Some(InListOrder(held[c]))]_vars

\* C17 witness: a caller that uploaded part 1 before part 0 has completed
\* with the list it holds, part 1 first, and the committed object is its
\* part 1 followed by its part 0.
C17_Witness ==
    /\ sret.op = "complete_multipart"
    /\ sret.ok
    /\ held[sret.call.caller] = << PartIdOf(1), PartIdOf(0) >>
    /\ objects[Loc] = Some(PartData(sret.call.caller, 1)
                              \o PartData(sret.call.caller, 0))

\* C18: put_part is called once per index: the calls made so far carry
\* pairwise different indices, an index whose upload is in flight has not
\* returned before, and an index whose upload has returned, with success or
\* with an error, is never in flight again.  The slot of an index is
\* written once: a filled slot never changes, and a slot is filled only in
\* the step in which the upload of its index returns, with the PartId of
\* that index.
C18_UploadedOnce ==
    /\ [](/\ \A i, j \in DOMAIN uploadLog :
                uploadLog[i].idx = uploadLog[j].idx => i = j
          /\ \A t \in tasks : t.idx \notin Returned
          /\ Cardinality(tasks) + Cardinality(Returned) = Len(uploadLog))
    /\ [][ /\ \A t \in tasks' : t.idx \notin Returned
           /\ Len(completed_parts') >= Len(completed_parts)
           /\ \A i \in DOMAIN completed_parts' :
                 IF i \in DOMAIN completed_parts /\ completed_parts[i] # None
                 THEN completed_parts'[i] = completed_parts[i]
                 ELSE completed_parts'[i] # None =>
                         /\ completed_parts'[i] = Some(PartIdOf(i - 1))
                         /\ \E t \in tasks : t.idx = i - 1 /\ tasks' = tasks \ {t}
         ]_vars

\* C18 witness: the upload of part 0 failed, the uploads of parts 1 and 2
\* succeeded after it, and no upload is in flight: part 0 was not uploaded
\* again.
C18_Witness ==
    /\ failure = Some([kind |-> "put_part", idx |-> 0])
    /\ failedParts = {0}
    /\ Len(completed_parts) = 3
    /\ completed_parts[2] # None
    /\ completed_parts[3] # None
    /\ Len(uploadLog) = 3
    /\ tasks = {}

\* C19: under the scheduling of the writer, in which every upload and the
\* completion return, a close that has been called returns, whatever the
\* buffer held and however many uploads were in flight when it was called;
\* and a close that has returned has returned success exactly when no
\* upload failed and the completion committed the bytes written.
C19_CloseTerminates ==
    /\ (wstate \in {"closeSuspended", "draining", "completing"})
          ~> (wstate = "closed" /\ closeResult \in {"ok", "err"})
    /\ [](wstate = "closed" =>
            /\ ret.op = "close"
            /\ ret.res = closeResult
            /\ closeResult = "ok" <=>
                  (failedParts = {} /\ objects[Loc] = Some(Original)))

\* C19 witness: a close called after more parts than the concurrency bound
\* had been carved, all the bytes of the long run written, has returned
\* success.
C19_Witness ==
    /\ wstate = "closed"
    /\ closeResult = "ok"
    /\ written = MaxParts * MinPartSize
    /\ Len(uploadLog) = MaxParts + 1
    /\ MaxParts > MaxConcurrency
============================================================================
